---- MODULE Spec2Model ----
(***************************************************************************)
(* A model of tg-analyzer (src/main.py): the chat-export object model      *)
(* (ChatExport, Message, Message.Text, MsgFactory) and the three queries   *)
(* of the command loop (wcount, wgrep, msgcount).                          *)
(*                                                                         *)
(* Representation.                                                         *)
(*   - A Python str that is searched or rendered is a sequence of          *)
(*     one-character strings, so that substring counting, lower-casing and *)
(*     concatenation are computed, not assumed.                            *)
(*   - A Python dict is a function whose DOMAIN is its key set, so a       *)
(*     missing key (KeyError) is a key outside the DOMAIN.                 *)
(*   - An element of a text list is either a str, written [str |-> s], or  *)
(*     an entity dict [type |-> t] / [type |-> t, text |-> s].             *)
(*     isinstance(el, str) is "str" \in DOMAIN el.                         *)
(*   - A raw text value is a str [str |-> s] or a list [list |-> elems].   *)
(***************************************************************************)
EXTENDS Integers, Sequences, FiniteSets, TLC

VARIABLES
    parsed,     \* the JSON document as json.load returned it (never written)
    doc,        \* the same document object, which ChatExport rewrites in place
    chat,       \* the ChatExport that load_file returned, or NoChat
    pc,         \* "start", "loaded", "load_failed", "crashed" (an exception left
                \* cmdloop), or "text" when only a Message.Text is exercised
    err,        \* the exception that left the last operation, or NoErr
    cmd,        \* the last query issued, or NoCmd
    out,        \* what the last query printed, in order
    raw,        \* the raw text value given to Message.Text
    text,       \* the Message.Text object built from raw, or NoText
    word,       \* the word argument of Text.count
    cs,         \* the case_sensitive argument of Text.count
    cnt,        \* the value Text.count returned, or -1 before the call
    rendered    \* the value Text.__repr__ returned, or NoStr before the call

vars == <<parsed, doc, chat, pc, err, cmd, out, raw, text, word, cs, cnt, rendered>>

(***************************************************************************)
(* Bounds of the model.                                                    *)
(***************************************************************************)
MaxTextLen == 3
MaxSegs == 2
MaxWordLen == 2
MaxMsgs == 4
\* characters of a text or a word that may hold a capital sigma
MaxCaseLen == 2

(***************************************************************************)
(* Characters and strings.                                                 *)
(***************************************************************************)
\* A character is a one-character string; the three Greek sigmas are
\* written by their code points: "U+03A3" capital sigma, "U+03C3" small
\* sigma, "U+03C2" small final sigma.
Alphabet == {"a", "A"}

\* the alphabet of the texts and words whose lower-casing is exercised
CaseAlphabet == {"a", "A", "U+03A3"}

\* the strings of at most n characters over alphabet
Strings(alphabet, n) ==
    UNION {[1..k -> alphabet] : k \in 0..n}

\* the characters with the Unicode property Cased
Cased(c) == c \in {"a", "A", "U+03A3", "U+03C3", "U+03C2"}

\* the characters with the Unicode property Case_Ignorable
CaseIgnorable(c) == c \in {"'", "."}

\* str.lower() on a capital sigma at position i: final when a cased letter
\* stands before it and none after it, case-ignorable characters skipped
FinalSigma(s, i) ==
    /\ \E j \in 1..(i - 1) :
          /\ Cased(s[j])
          /\ \A k \in (j + 1)..(i - 1) : CaseIgnorable(s[k])
    /\ ~\E j \in (i + 1)..Len(s) :
          /\ Cased(s[j])
          /\ \A k \in (i + 1)..(j - 1) : CaseIgnorable(s[k])

\* str.lower() on the character at position i of s
LowerChar(s, i) ==
    CASE s[i] = "A" -> "a"
      [] s[i] = "U+03A3" -> IF FinalSigma(s, i) THEN "U+03C2" ELSE "U+03C3"
      [] OTHER -> s[i]

\* str.lower()
Lower(s) ==
    [i \in 1..Len(s) |-> LowerChar(s, i)]

\* str.count(sub) scanning from position i: non-overlapping, left to right
RECURSIVE CountFrom(_, _, _)
CountFrom(s, w, i) ==
    IF i + Len(w) - 1 > Len(s) THEN 0
    ELSE IF SubSeq(s, i, i + Len(w) - 1) = w
         THEN 1 + CountFrom(s, w, i + Len(w))
         ELSE CountFrom(s, w, i + 1)

\* the variant of the scan that advances one character after a match
RECURSIVE CountOverlapping(_, _, _)
CountOverlapping(s, w, i) ==
    IF i + Len(w) - 1 > Len(s) THEN 0
    ELSE (IF SubSeq(s, i, i + Len(w) - 1) = w THEN 1 ELSE 0)
         + CountOverlapping(s, w, i + 1)

StrCountOverlapping(s, w) ==
    IF Len(w) = 0 THEN Len(s) + 1 ELSE CountOverlapping(s, w, 1)

\* str.count(sub); the empty sub matches at every position, len(s) + 1 times
StrCount(s, w) ==
    IF Len(w) = 0 THEN Len(s) + 1 ELSE CountFrom(s, w, 1)

\* "".join(parts)
RECURSIVE Join(_)
Join(parts) ==
    IF parts = <<>> THEN <<>> ELSE Head(parts) \o Join(Tail(parts))

\* sum(counts)
RECURSIVE Sum(_)
Sum(ns) ==
    IF ns = <<>> THEN 0 ELSE Head(ns) + Sum(Tail(ns))

(***************************************************************************)
(* Message.Text                                                            *)
(***************************************************************************)
IsStr(el) == "str" \in DOMAIN el

NoText == [none |-> TRUE]
NoStr == <<"?none?">>

\* Text.__post_init__
TextPostInit(raw_contents) ==
    IF IsStr(raw_contents)
    THEN [contents |-> <<raw_contents>>]
    ELSE [contents |-> raw_contents.list]

\* one iteration of the loop of Text.__repr__: what is appended to res
ReprPiece(el) ==
    IF ~IsStr(el)
    THEN IF "text" \in DOMAIN el
         THEN el.text
         ELSE <<"<">> \o el.type \o <<">">>
    ELSE el.str

\* Text.__repr__ that leaves out entities without a text sub-field
TextReprSkipsPlaceholder(t) ==
    Join([i \in 1..Len(t.contents) |->
            IF ~IsStr(t.contents[i]) /\ "text" \notin DOMAIN t.contents[i]
            THEN <<>>
            ELSE ReprPiece(t.contents[i])])

\* Text.__repr__
TextRepr(t) ==
    Join([i \in 1..Len(t.contents) |-> ReprPiece(t.contents[i])])

\* the loop of Text.count over contents[i..]: the list `counts` it builds.
\* w is the loop-carried `word`, lower-cased in place on every iteration
\* that reaches line 97.
RECURSIVE CountLoop(_, _, _, _)
CountLoop(contents, w, case_sensitive, i) ==
    IF i > Len(contents) THEN <<>>
    ELSE LET el == contents[i] IN
         IF ~IsStr(el) /\ "text" \notin DOMAIN el
         THEN CountLoop(contents, w, case_sensitive, i + 1)
         ELSE LET s0 == IF IsStr(el) THEN el.str ELSE el.text
                  s  == IF ~case_sensitive THEN Lower(s0) ELSE s0
                  w2 == IF ~case_sensitive THEN Lower(w) ELSE w
              IN  <<StrCount(s, w2)>> \o CountLoop(contents, w2, case_sensitive, i + 1)

\* Text.count that lower-cases the segment but not the word
RECURSIVE CountLoopKeepsWordCase(_, _, _, _)
CountLoopKeepsWordCase(contents, w, case_sensitive, i) ==
    IF i > Len(contents) THEN <<>>
    ELSE LET el == contents[i] IN
         IF ~IsStr(el) /\ "text" \notin DOMAIN el
         THEN CountLoopKeepsWordCase(contents, w, case_sensitive, i + 1)
         ELSE LET s0 == IF IsStr(el) THEN el.str ELSE el.text
                  s  == IF ~case_sensitive THEN Lower(s0) ELSE s0
              IN  <<StrCount(s, w)>>
                  \o CountLoopKeepsWordCase(contents, w, case_sensitive, i + 1)

TextCountKeepsWordCase(t, w, case_sensitive) ==
    Sum(CountLoopKeepsWordCase(t.contents, w, case_sensitive, 1))

\* Text.count that takes every call as case-insensitive
TextCountIgnoresFlag(t, w, case_sensitive) ==
    Sum(CountLoop(t.contents, w, FALSE, 1))

\* Text.count
TextCount(t, w, case_sensitive) ==
    Sum(CountLoop(t.contents, w, case_sensitive, 1))

(***************************************************************************)
(* The raw text values of an export: a str, or a list of str and entity    *)
(* dicts (section 6 of the specification, the "text" field).               *)
(***************************************************************************)
EntityTypes == {<<"a">>}

\* the elements of a text list whose own text is at most n characters long
Elements(alphabet, n) ==
    {[str |-> s] : s \in Strings(alphabet, n)}
    \cup {[type |-> t] : t \in EntityTypes}
    \cup {[type |-> t, text |-> s] : t \in EntityTypes, s \in Strings(alphabet, n)}

ElemLen(el) ==
    IF IsStr(el) THEN Len(el.str)
    ELSE IF "text" \in DOMAIN el THEN Len(el.text) ELSE 0

\* the lists of at most k elements holding at most n characters in all
RECURSIVE Lists(_, _, _)
Lists(alphabet, k, n) ==
    IF k = 0 THEN {<<>>}
    ELSE {<<>>} \cup
         UNION {{<<el>> \o l : l \in Lists(alphabet, k - 1, n - ElemLen(el))} :
                   el \in Elements(alphabet, n)}

\* the raw texts of at most n characters over alphabet
RawTextsOver(alphabet, n) ==
    {[str |-> s] : s \in Strings(alphabet, n)}
    \cup {[list |-> l] : l \in Lists(alphabet, MaxSegs, n)}

RawTexts == RawTextsOver(Alphabet, MaxTextLen)

Words == Strings(Alphabet, MaxWordLen)

CaseRawTexts == RawTextsOver(CaseAlphabet, MaxCaseLen)

CaseWords == Strings(CaseAlphabet, MaxCaseLen)

(***************************************************************************)
(* State of the document model, unused by the text operations.             *)
(***************************************************************************)
NoErr == [kind |-> "none"]
NoCmd == [name |-> "none"]
NoDoc == [name |-> "none"]
NoChat == [none |-> TRUE]
NoRaw == [none |-> TRUE]

(***************************************************************************)
(* The operations of Message.Text on one raw text value.                   *)
(***************************************************************************)
TextInit ==
    /\ pc = "text"
    /\ raw \in RawTexts
    /\ text = NoText
    /\ word \in Words
    /\ cs \in BOOLEAN
    /\ cnt = -1
    /\ rendered = NoStr
    /\ parsed = NoDoc
    /\ doc = NoDoc
    /\ chat = NoChat
    /\ err = NoErr
    /\ cmd = NoCmd
    /\ out = <<>>

\* Message.Text(raw_contents=raw)
Construct ==
    /\ pc = "text"
    /\ text = NoText
    /\ text' = TextPostInit(raw)
    /\ UNCHANGED <<parsed, doc, chat, pc, err, cmd, out, raw, word, cs, cnt, rendered>>

\* text.count(word, cs)
Count ==
    /\ pc = "text"
    /\ text # NoText
    /\ cnt' = TextCount(text, word, cs)
    /\ UNCHANGED <<parsed, doc, chat, pc, err, cmd, out, raw, text, word, cs, rendered>>

\* repr(text)
Repr ==
    /\ pc = "text"
    /\ text # NoText
    /\ rendered' = TextRepr(text)
    /\ UNCHANGED <<parsed, doc, chat, pc, err, cmd, out, raw, text, word, cs, cnt>>

TextNext == Construct \/ Count \/ Repr

TextSpec == TextInit /\ [][TextNext]_vars

(***************************************************************************)
(* Text.count on texts and words that hold a capital sigma, the one        *)
(* character str.lower() does not lower-case by itself.                    *)
(***************************************************************************)
CaseInit ==
    /\ pc = "text"
    /\ raw \in CaseRawTexts
    /\ text = NoText
    /\ word = <<>>
    /\ cs = FALSE
    /\ cnt = -1
    /\ rendered = NoStr
    /\ parsed = NoDoc
    /\ doc = NoDoc
    /\ chat = NoChat
    /\ err = NoErr
    /\ cmd = NoCmd
    /\ out = <<>>

\* text.count(w, c), for one choice of its arguments
CountOnce ==
    /\ pc = "text"
    /\ text # NoText
    /\ cnt = -1
    /\ \E w \in CaseWords, c \in BOOLEAN :
         /\ word' = w
         /\ cs' = c
         /\ cnt' = TextCount(text, w, c)
    /\ UNCHANGED <<parsed, doc, chat, pc, err, cmd, out, raw, text, rendered>>

CaseNext == Construct \/ CountOnce

CaseSpec == CaseInit /\ [][CaseNext]_vars

(***************************************************************************)
(* JsonObject, Message and its two variants, MsgFactory, ChatExport.       *)
(* An object is [cls |-> its class, inner |-> the dict it wraps].          *)
(* An operation that may raise returns [err |-> exception or NoErr, ...].  *)
(***************************************************************************)
ValueError(arg) == [kind |-> "ValueError", arg |-> arg]
KeyError(key) == [kind |-> "KeyError", arg |-> key]
AttributeError(attr) == [kind |-> "AttributeError", arg |-> attr]

IsMessage(x) == "cls" \in DOMAIN x

\* Message.__post_init__: wrap the record, replace its text by a Text
MessagePostInit(cls, json_val) ==
    [cls |-> cls, inner |-> [json_val EXCEPT !.text = TextPostInit(json_val.text)]]

\* the dispatch table with its two classes exchanged
MAPPINGSwapped == [service |-> "RegularMessage", message |-> "ServiceMessage"]

\* MsgFactory.MAPPING
MAPPING == [service |-> "ServiceMessage", message |-> "RegularMessage"]

\* MsgFactory.get_message
GetMessage(json_obj) ==
    LET msg_type == json_obj.type IN
    IF msg_type \in DOMAIN MAPPING
    THEN [err |-> NoErr, val |-> MessagePostInit(MAPPING[msg_type], json_obj)]
    ELSE [err |-> ValueError(msg_type)]

\* msg.from_usr that yields a default on a class without the property
FromUsrDefaults(msg) ==
    IF msg.cls = "RegularMessage" /\ "from" \in DOMAIN msg.inner
    THEN [err |-> NoErr, val |-> msg.inner.from]
    ELSE [err |-> NoErr, val |-> "None"]

\* msg.from_usr: RegularMessage.from_usr, and no such attribute elsewhere
FromUsr(msg) ==
    IF msg.cls = "RegularMessage"
    THEN IF "from" \in DOMAIN msg.inner
         THEN [err |-> NoErr, val |-> msg.inner.from]
         ELSE [err |-> KeyError("from")]
    ELSE [err |-> AttributeError("from_usr")]

\* msg.action: ServiceMessage.action, and no such attribute elsewhere
Action(msg) ==
    IF msg.cls = "ServiceMessage"
    THEN IF "action" \in DOMAIN msg.inner
         THEN [err |-> NoErr, val |-> msg.inner.action]
         ELSE [err |-> KeyError("action")]
    ELSE [err |-> AttributeError("action")]

\* the loop of ChatExport.__post_init__ that leaves the last record as it is
RECURSIVE LoadLoopSkipsLast(_, _)
LoadLoopSkipsLast(messages, idx) ==
    IF idx >= Len(messages) THEN [messages |-> messages, err |-> NoErr]
    ELSE LET new_msg == GetMessage(messages[idx]) IN
         IF new_msg.err # NoErr
         THEN [messages |-> messages, err |-> new_msg.err]
         ELSE LoadLoopSkipsLast([messages EXCEPT ![idx] = new_msg.val], idx + 1)

\* the loop of ChatExport.__post_init__ from index idx on: the messages
\* list as the loop leaves it, and the exception that ended it if any
RECURSIVE LoadLoop(_, _)
LoadLoop(messages, idx) ==
    IF idx > Len(messages) THEN [messages |-> messages, err |-> NoErr]
    ELSE LET new_msg == GetMessage(messages[idx]) IN
         IF new_msg.err # NoErr
         THEN [messages |-> messages, err |-> new_msg.err]
         ELSE LoadLoop([messages EXCEPT ![idx] = new_msg.val], idx + 1)

(***************************************************************************)
(* collections.Counter / defaultdict: a dict in insertion order, as the    *)
(* sequence of its <<key, value>> items.                                   *)
(***************************************************************************)
HasKey(d, key) == \E i \in 1..Len(d) : d[i][1] = key

KeyIndex(d, key) == CHOOSE i \in 1..Len(d) : d[i][1] = key

\* count[key] += n
CounterAdd(count, key, n) ==
    IF HasKey(count, key)
    THEN [count EXCEPT ![KeyIndex(count, key)] = <<key, @[2] + n>>]
    ELSE Append(count, <<key, n>>)

\* user_count[user][w] += n on a defaultdict(Counter)
UserCounterAdd(user_count, user, w, n) ==
    IF HasKey(user_count, user)
    THEN [user_count EXCEPT ![KeyIndex(user_count, user)] =
              <<user, CounterAdd(@[2], w, n)>>]
    ELSE Append(user_count, <<user, CounterAdd(<<>>, w, n)>>)

\* ord(c)
Ord(c) ==
    CASE c = "A" -> 65
      [] c = "a" -> 97
      [] c = "<" -> 60
      [] c = ">" -> 62
      [] OTHER -> 0

\* x < y on str
RECURSIVE StrLess(_, _)
StrLess(x, y) ==
    IF y = <<>> THEN FALSE
    ELSE IF x = <<>> THEN TRUE
    ELSE IF Head(x) # Head(y) THEN Ord(Head(x)) < Ord(Head(y))
    ELSE StrLess(Tail(x), Tail(y))

RECURSIVE InsertByWord(_, _)
InsertByWord(q, x) ==
    IF q = <<>> THEN <<x>>
    ELSE IF StrLess(x[1], Head(q)[1]) THEN <<x>> \o q
    ELSE <<Head(q)>> \o InsertByWord(Tail(q), x)

\* sorted(word_counts.items()): the keys are distinct, so by word
RECURSIVE SortedByWord(_)
SortedByWord(items) ==
    IF items = <<>> THEN <<>>
    ELSE InsertByWord(SortedByWord(SubSeq(items, 1, Len(items) - 1)),
                      items[Len(items)])

RECURSIVE InsertByCount(_, _)
InsertByCount(q, x) ==
    IF q = <<>> THEN <<x>>
    ELSE IF x[2] < Head(q)[2] THEN <<x>> \o q
    ELSE <<Head(q)>> \o InsertByCount(Tail(q), x)

\* the items left in insertion order
SortedByCountUnsorted(items) == items

\* sorted(count.items(), key=operator.itemgetter(1)): stable, ascending
RECURSIVE SortedByCount(_)
SortedByCount(items) ==
    IF items = <<>> THEN <<>>
    ELSE InsertByCount(SortedByCount(SubSeq(items, 1, Len(items) - 1)),
                       items[Len(items)])

(***************************************************************************)
(* The queries.  Each returns [err, out]: the exception that left run()    *)
(* (NoErr when it returned) and the print calls made, in order.            *)
(***************************************************************************)
\* _WordCount.run, not per_user: the loops over messages and words
RECURSIVE WordCountLoop(_, _, _, _, _, _)
WordCountLoop(messages, words, case_sensitive, i, j, count) ==
    IF i > Len(messages) THEN count
    ELSE IF j > Len(words)
         THEN WordCountLoop(messages, words, case_sensitive, i + 1, 1, count)
         ELSE WordCountLoop(messages, words, case_sensitive, i, j + 1,
                  CounterAdd(count, words[j],
                      TextCount(messages[i].inner.text, words[j], case_sensitive)))

\* _WordCount.run, per_user: the loops over messages and words
RECURSIVE UserCountLoop(_, _, _, _, _, _)
UserCountLoop(messages, words, case_sensitive, i, j, user_count) ==
    IF i > Len(messages) THEN [err |-> NoErr, user_count |-> user_count]
    ELSE IF j > Len(words)
         THEN UserCountLoop(messages, words, case_sensitive, i + 1, 1, user_count)
         ELSE LET count == TextCount(messages[i].inner.text, words[j], case_sensitive)
                  usr   == FromUsr(messages[i])
              IN  IF count = 0
                  THEN UserCountLoop(messages, words, case_sensitive, i, j + 1,
                                     user_count)
                  ELSE IF usr.err # NoErr
                  THEN [err |-> usr.err, user_count |-> user_count]
                  ELSE UserCountLoop(messages, words, case_sensitive, i, j + 1,
                           UserCounterAdd(user_count, usr.val, words[j], count))

\* the two prints per user that end the per_user branch
RECURSIVE UserCountPrints(_)
UserCountPrints(user_count) ==
    IF user_count = <<>> THEN <<>>
    ELSE <<<<"user", Head(user_count)[1]>>,
           <<"block", SortedByWord(Head(user_count)[2])>>>>
         \o UserCountPrints(Tail(user_count))

\* _WordCount.run
WordCountRun(messages, args) ==
    IF ~args.per_user
    THEN LET count == WordCountLoop(messages, args.words, args.case_sensitive,
                                    1, 1, <<>>)
         IN  [err |-> NoErr,
              out |-> [k \in 1..Len(count) |-> <<"count", count[k][1], count[k][2]>>]]
    ELSE LET r == UserCountLoop(messages, args.words, args.case_sensitive,
                                1, 1, <<>>)
         IN  IF r.err # NoErr
             THEN [err |-> r.err, out |-> <<>>]
             ELSE [err |-> NoErr, out |-> UserCountPrints(r.user_count)]

\* _WordGrep.run: the loops over messages and words, printing as they go
RECURSIVE WordGrepLoop(_, _, _, _, _, _)
WordGrepLoop(messages, words, case_sensitive, i, j, printed) ==
    IF i > Len(messages) THEN [err |-> NoErr, out |-> printed]
    ELSE IF j > Len(words)
         THEN WordGrepLoop(messages, words, case_sensitive, i + 1, 1, printed)
         ELSE LET count == TextCount(messages[i].inner.text, words[j], case_sensitive)
                  usr   == FromUsr(messages[i])
              IN  IF count = 0
                  THEN WordGrepLoop(messages, words, case_sensitive, i, j + 1, printed)
                  ELSE IF usr.err # NoErr
                  THEN [err |-> usr.err, out |-> printed]
                  ELSE WordGrepLoop(messages, words, case_sensitive, i, j + 1,
                           Append(printed,
                                  <<"grep", words[j], usr.val,
                                    TextRepr(messages[i].inner.text)>>))

\* _WordGrep.run
WordGrepRun(messages, args) ==
    WordGrepLoop(messages, args.words, args.case_sensitive, 1, 1, <<>>)

\* _MsgCount.run, per_user: the loop under contextlib.suppress(AttributeError)
RECURSIVE MsgCountLoop(_, _, _)
MsgCountLoop(messages, i, count) ==
    IF i > Len(messages) THEN [err |-> NoErr, count |-> count]
    ELSE LET usr == FromUsr(messages[i]) IN
         IF usr.err = NoErr
         THEN MsgCountLoop(messages, i + 1, CounterAdd(count, usr.val, 1))
         ELSE IF usr.err.kind = "AttributeError"
         THEN MsgCountLoop(messages, i + 1, count)
         ELSE [err |-> usr.err, count |-> count]

\* _MsgCount.run
MsgCountRun(messages, args) ==
    IF ~args.per_user
    THEN [err |-> NoErr, out |-> <<<<"len", Len(messages)>>>>]
    ELSE LET r == MsgCountLoop(messages, 1, <<>>)
             sorted == SortedByCount(r.count)
         IN  IF r.err # NoErr
             THEN [err |-> r.err, out |-> <<>>]
             ELSE [err |-> NoErr,
                   out |-> [k \in 1..Len(sorted) |->
                              <<"usr", sorted[k][1], sorted[k][2]>>]]

(***************************************************************************)
(* The export documents loaded: up to MaxMsgs records, each a regular      *)
(* message (from A, from B, or with its "from" key missing), a service     *)
(* message (with or without text), or a record of the unhandled type       *)
(* "poll".                                                                 *)
(***************************************************************************)
Common(i, type, t) ==
    [id |-> 10 + i, type |-> type, date |-> 100 + i, date_unixtime |-> 1000 + i,
     text |-> t]

PlainA == [str |-> <<"a">>]
Empty == [str |-> <<>>]
Mixed == [list |-> <<[str |-> <<"A">>], [type |-> <<"a">>]>>]

\* the records that may stand at position i of the export
RawRecords(i) ==
    {Common(i, "message", PlainA) @@ [from |-> "A"]}
    \cup {Common(i, "message", Mixed) @@ [from |-> "B"]}
    \cup {Common(i, "message", PlainA)}
    \cup {Common(i, "service", t) @@ [action |-> "invite_members"] : t \in {PlainA, Empty}}
    \cup {Common(i, "poll", PlainA)}

\* the message lists of n records, record i drawn from RawRecords(i)
RECURSIVE MessageLists(_)
MessageLists(n) ==
    IF n = 0 THEN {<<>>}
    ELSE {Append(m, r) : m \in MessageLists(n - 1), r \in RawRecords(n)}

Docs ==
    {[name |-> "chat", id |-> 1, messages |-> m] :
        m \in UNION {MessageLists(n) : n \in 0..MaxMsgs}}

\* the arguments argparse hands to a query
WordLists == {<<<<"a">>, <<"A">>>>}

Init ==
    /\ parsed \in Docs
    /\ doc = parsed
    /\ chat = NoChat
    /\ pc = "start"
    /\ err = NoErr
    /\ cmd = NoCmd
    /\ out = <<>>
    /\ raw = NoRaw
    /\ text = NoText
    /\ word = <<>>
    /\ cs = FALSE
    /\ cnt = -1
    /\ rendered = NoStr

\* App.load_file: ChatExport(json_val=chat), whose __post_init__ rewrites
\* the document's messages in place and may raise half way
Load ==
    /\ pc = "start"
    /\ LET r == LoadLoop(doc.messages, 1) IN
         /\ doc' = [doc EXCEPT !.messages = r.messages]
         /\ err' = r.err
         /\ pc' = IF r.err = NoErr THEN "loaded" ELSE "load_failed"
         /\ chat' = IF r.err = NoErr THEN [cls |-> "ChatExport"] ELSE NoChat
    /\ UNCHANGED <<parsed, cmd, out, raw, text, word, cs, cnt, rendered>>

\* what a query leaves behind: an exception that leaves run() ends cmdloop
Finish(args, r) ==
    /\ cmd' = args
    /\ out' = r.out
    /\ err' = r.err
    /\ pc' = IF r.err = NoErr THEN "loaded" ELSE "crashed"

\* do_msgcount that keeps only the messages with a sender in the chat
MsgCountFiltersChat ==
    /\ pc = "loaded"
    /\ \E u \in BOOLEAN :
         LET args == [name |-> "msgcount", per_user |-> u] IN
         /\ Finish(args, MsgCountRun(doc.messages, args))
         /\ doc' = [doc EXCEPT !.messages =
                        SelectSeq(@, LAMBDA m : m.cls = "RegularMessage")]
    /\ UNCHANGED <<parsed, chat, raw, text, word, cs, cnt, rendered>>

\* do_wcount
WordCount ==
    /\ pc = "loaded"
    /\ \E ws \in WordLists, c \in BOOLEAN, u \in BOOLEAN :
         LET args == [name |-> "wcount", words |-> ws, case_sensitive |-> c,
                      per_user |-> u] IN
         \E r \in {WordCountRun(doc.messages, args)} : Finish(args, r)
    /\ UNCHANGED <<parsed, doc, chat, raw, text, word, cs, cnt, rendered>>

\* do_wgrep
WordGrep ==
    /\ pc = "loaded"
    /\ \E ws \in WordLists, c \in BOOLEAN :
         LET args == [name |-> "wgrep", words |-> ws, case_sensitive |-> c] IN
         \E r \in {WordGrepRun(doc.messages, args)} : Finish(args, r)
    /\ UNCHANGED <<parsed, doc, chat, raw, text, word, cs, cnt, rendered>>

\* do_msgcount
MsgCount ==
    /\ pc = "loaded"
    /\ \E u \in BOOLEAN :
         LET args == [name |-> "msgcount", per_user |-> u] IN
         \E r \in {MsgCountRun(doc.messages, args)} : Finish(args, r)
    /\ UNCHANGED <<parsed, doc, chat, raw, text, word, cs, cnt, rendered>>

Next == Load \/ WordCount \/ WordGrep \/ MsgCount

Spec == Init /\ [][Next]_vars

(***************************************************************************)
(* Reference notions the properties are stated with.  They are written     *)
(* declaratively, not as the scans and loops of the code.                  *)
(***************************************************************************)
\* the positions at which w occurs in s
Occurrences(s, w) ==
    {p \in 1..(Len(s) - Len(w) + 1) : \A k \in 1..Len(w) : s[p + k - 1] = w[k]}

\* the largest number of pairwise non-overlapping occurrences of w in s
NonOverlapping(s, w) ==
    LET occ == Occurrences(s, w)
        disjoint(P) == \A p \in P, q \in P : p < q => q - p >= Len(w)
        sizes == {Cardinality(P) : P \in {Q \in SUBSET occ : disjoint(Q)}}
    IN  CHOOSE n \in sizes : \A m \in sizes : m <= n

\* s with every ASCII letter in lower case
Folded(s) ==
    [i \in 1..Len(s) |-> IF s[i] = "A" THEN "a" ELSE s[i]]

\* the segment with its searched text in lower case (a type tag is no text)
FoldedElem(el) ==
    IF IsStr(el) THEN [str |-> Folded(el.str)]
    ELSE IF "text" \in DOMAIN el
         THEN [type |-> el.type, text |-> Folded(el.text)]
         ELSE el

FoldedText(t) ==
    [contents |-> [i \in 1..Len(t.contents) |-> FoldedElem(t.contents[i])]]

\* the text a segment is searched in; Skipped when it is not searched
Skipped == <<"?skipped?">>
SearchedText(el) ==
    IF IsStr(el) THEN el.str
    ELSE IF "text" \in DOMAIN el THEN el.text ELSE Skipped

\* what a segment shows in the rendered string
Shown(el) ==
    IF IsStr(el) THEN el.str
    ELSE IF "text" \in DOMAIN el THEN el.text
    ELSE <<"<">> \o el.type \o <<">">>

\* the number of characters shown by the segments before segment i
RECURSIVE Offset(_, _)
Offset(contents, i) ==
    IF i <= 1 THEN 0
    ELSE Offset(contents, i - 1) + Len(Shown(contents[i - 1]))

\* occurrences of w in one segment, letter case ignored unless exact
SegmentOccurrences(el, w, exact) ==
    IF SearchedText(el) = Skipped THEN 0
    ELSE IF exact
         THEN NonOverlapping(SearchedText(el), w)
         ELSE NonOverlapping(Folded(SearchedText(el)), Folded(w))

RECURSIVE Total(_, _)
Total(f, n) ==
    IF n = 0 THEN 0 ELSE f[n] + Total(f, n - 1)

Counted == pc = "text" /\ text # NoText /\ cnt # -1
Rendered == pc = "text" /\ text # NoText /\ rendered # NoStr

(***************************************************************************)
(* C4: for a non-empty word, Text.count returns the sum over the segments  *)
(* of the number of non-overlapping occurrences of the word in the         *)
(* segment's text: a str contributes its own string, an entity with a      *)
(* text sub-field that sub-field, an entity without one nothing (its       *)
(* <type> placeholder is not searched).                                    *)
(***************************************************************************)
C4_CountSumsSegments ==
    (Counted /\ word # <<>>) =>
        cnt = Total([i \in 1..Len(text.contents) |->
                        SegmentOccurrences(text.contents[i], word, cs)],
                    Len(text.contents))

\* an entity without a text sub-field adds nothing beside a str in which the
\* word occurs at two overlapping positions, which count once
C4_Witness ==
    /\ Counted
    /\ word = <<"a", "a">>
    /\ cs
    /\ text.contents = <<[type |-> <<"a">>], [str |-> <<"a", "a", "a">>]>>
    /\ cnt = 1

\* s in lower case when all its characters are letters, as str.lower() gives
\* it: A becomes a; a capital sigma becomes the final sigma at the end of a
\* string of two or more letters and the small sigma everywhere else
Lowered(s) ==
    [i \in 1..Len(s) |->
        CASE s[i] = "A" -> "a"
          [] s[i] = "U+03A3" ->
                IF i > 1 /\ i = Len(s) THEN "U+03C2" ELSE "U+03C3"
          [] OTHER -> s[i]]

\* occurrences of w in one segment after both are lower-cased as strings
LoweredOccurrences(el, w) ==
    IF SearchedText(el) = Skipped THEN 0
    ELSE NonOverlapping(Lowered(SearchedText(el)), Lowered(w))

\* s with every letter replaced by its small form, one letter at a time
LetterFolded(s) ==
    [i \in 1..Len(s) |->
        CASE s[i] = "A" -> "a"
          [] s[i] = "U+03A3" -> "U+03C3"
          [] OTHER -> s[i]]

LetterFoldedElem(el) ==
    IF IsStr(el) THEN [str |-> LetterFolded(el.str)]
    ELSE IF "text" \in DOMAIN el
         THEN [type |-> el.type, text |-> LetterFolded(el.text)]
         ELSE el

LetterFoldedText(t) ==
    [contents |-> [i \in 1..Len(t.contents) |-> LetterFoldedElem(t.contents[i])]]

HasCapitalSigma(s) == \E i \in 1..Len(s) : s[i] = "U+03A3"

(***************************************************************************)
(* C5 as stated: with case_sensitive false the result does not depend on   *)
(* the letter case of the text or of the word, so it is the result for     *)
(* the text and the word with every letter made small; with                *)
(* case_sensitive true only exact-case occurrences are counted and the     *)
(* result never exceeds the case-insensitive result for the same text and  *)
(* word.                                                                   *)
(***************************************************************************)
C5_AsStated ==
    Counted =>
        /\ ~cs => cnt = TextCount(LetterFoldedText(text), LetterFolded(word), FALSE)
        /\ cs =>
              /\ cnt <= TextCount(text, word, FALSE)
              /\ word # <<>> =>
                    cnt = Total([i \in 1..Len(text.contents) |->
                                    SegmentOccurrences(text.contents[i], word, TRUE)],
                                Len(text.contents))

(***************************************************************************)
(* C5: with case_sensitive false the result is the number of occurrences   *)
(* of the word lower-cased as a string in the segment texts lower-cased as *)
(* strings, and it does not depend on the case of the ASCII letters of     *)
(* the text or of the word; with case_sensitive true only exact-case       *)
(* occurrences are counted, and the result does not exceed the             *)
(* case-insensitive result for the same text and word when the word holds  *)
(* no capital sigma.                                                       *)
(***************************************************************************)
C5_CaseHandling ==
    Counted =>
        /\ ~cs =>
              /\ word # <<>> =>
                    cnt = Total([i \in 1..Len(text.contents) |->
                                    LoweredOccurrences(text.contents[i], word)],
                                Len(text.contents))
              /\ cnt = TextCount(FoldedText(text), Folded(word), FALSE)
              /\ cnt = TextCount(text, Folded(word), FALSE)
              /\ cnt = TextCount(FoldedText(text), word, FALSE)
        /\ cs =>
              /\ word # <<>> =>
                    cnt = Total([i \in 1..Len(text.contents) |->
                                    SegmentOccurrences(text.contents[i], word, TRUE)],
                                Len(text.contents))
              /\ ~HasCapitalSigma(word) => cnt <= TextCount(text, word, FALSE)

\* a case-insensitive count over two segments: the word A-sigma is found in
\* the str a-sigma, the sigma being final in both, beside an entity that has
\* no text
C5_Witness ==
    /\ Counted
    /\ ~cs
    /\ word = <<"A", "U+03A3">>
    /\ text.contents = <<[type |-> <<"a">>], [str |-> <<"a", "U+03A3">>]>>
    /\ cnt = 1

(***************************************************************************)
(* C6: Text.__repr__ returns the segments' shown texts one after another   *)
(* in the raw order: each segment's shown text stands at the offset made   *)
(* by the segments before it and nothing else is in the result; a raw      *)
(* text that is a plain str renders as that str.                           *)
(***************************************************************************)
C6_RenderConcatenates ==
    Rendered =>
        /\ Len(rendered) = Offset(text.contents, Len(text.contents) + 1)
        /\ \A i \in 1..Len(text.contents) :
              SubSeq(rendered,
                     Offset(text.contents, i) + 1,
                     Offset(text.contents, i) + Len(Shown(text.contents[i])))
                = Shown(text.contents[i])
        /\ IsStr(raw) => (rendered = raw.str /\ text.contents = <<raw>>)
        /\ ~IsStr(raw) => text.contents = raw.list

\* a str, an entity without text and an entity with text, rendered in order
C6_Witness ==
    /\ Rendered
    /\ raw = [list |-> <<[str |-> <<"A">>], [type |-> <<"a">>]>>]
    /\ rendered = <<"A", "<", "a", ">">>

(***************************************************************************)
(* C10: counting is per segment.  For a text whose entities all carry a    *)
(* text sub-field, the case-sensitive count is at most the number of       *)
(* non-overlapping occurrences of the word in the rendered string, and     *)
(* equals it when the text has one segment.                                *)
(***************************************************************************)
AllEntitiesHaveText ==
    \A i \in 1..Len(text.contents) : SearchedText(text.contents[i]) # Skipped

\* occurrences in a string as str.count defines them for every sub
OccurrencesInString(s, w) ==
    IF w = <<>> THEN Len(s) + 1 ELSE NonOverlapping(s, w)

\* the claim as stated, for every word
C10_AsStated ==
    (Counted /\ cs /\ AllEntitiesHaveText) =>
        /\ cnt <= OccurrencesInString(Join([i \in 1..Len(text.contents) |->
                                               Shown(text.contents[i])]), word)
        /\ Len(text.contents) = 1 =>
              cnt = OccurrencesInString(Shown(text.contents[1]), word)

\* the claim for a non-empty word
C10_PerSegmentAtMostRendered ==
    (Counted /\ cs /\ AllEntitiesHaveText /\ word # <<>>) =>
        /\ cnt <= NonOverlapping(Join([i \in 1..Len(text.contents) |->
                                          Shown(text.contents[i])]), word)
        /\ Len(text.contents) = 1 =>
              cnt = NonOverlapping(Shown(text.contents[1]), word)

\* an occurrence that spans the boundary of two segments is not counted
C10_Witness ==
    /\ Counted
    /\ cs
    /\ word = <<"a", "A">>
    /\ text.contents = <<[str |-> <<"a">>], [type |-> <<"a">>, text |-> <<"A">>]>>
    /\ cnt = 0

(***************************************************************************)
(* Reference notions for the document model.                               *)
(***************************************************************************)
Loaded == pc \in {"loaded", "crashed"}

ValidType(r) == r.type \in {"message", "service"}

\* the segment sequence a raw text value stands for
Normalized(t) ==
    IF "str" \in DOMAIN t THEN <<t>> ELSE t.list

\* the position of the first record of parsed with an unhandled type
FirstBad ==
    CHOOSE i \in 1..Len(parsed.messages) :
        /\ ~ValidType(parsed.messages[i])
        /\ \A j \in 1..(i - 1) : ValidType(parsed.messages[j])

IsRegular(m) == IsMessage(m) /\ m.cls = "RegularMessage"
IsService(m) == IsMessage(m) /\ m.cls = "ServiceMessage"

\* the occurrences of w in message i as the last query searches
OccurrencesIn(i, w) ==
    LET c == doc.messages[i].inner.text.contents IN
    Total([k \in 1..Len(c) |-> SegmentOccurrences(c[k], w, cmd.case_sensitive)],
          Len(c))

\* message i holds an occurrence of one of the words of the last query
Hit(i) ==
    \E j \in 1..Len(cmd.words) : OccurrencesIn(i, cmd.words[j]) > 0

\* message i has no sender to show
NoSender(i) ==
    \/ IsService(doc.messages[i])
    \/ IsRegular(doc.messages[i]) /\ "from" \notin DOMAIN doc.messages[i].inner

Raising == {i \in 1..Len(doc.messages) : Hit(i) /\ NoSender(i)}

FirstRaising == CHOOSE i \in Raising : \A j \in Raising : i <= j

(***************************************************************************)
(* C1: loading a document with a record of an unhandled type fails with    *)
(* an error that carries the offending type, returns no ChatExport, and    *)
(* leaves no partially converted messages list behind: the document's      *)
(* messages do not hold converted Message objects beside raw records,      *)
(* wherever the bad record stands.                                         *)
(***************************************************************************)
C1_AsStated ==
    (pc # "start" /\ \E i \in 1..Len(parsed.messages) : ~ValidType(parsed.messages[i]))
    =>  /\ pc = "load_failed"
        /\ err = [kind |-> "ValueError", arg |-> parsed.messages[FirstBad].type]
        /\ chat = NoChat
        /\ ~\E i, j \in 1..Len(doc.messages) :
               IsMessage(doc.messages[i]) /\ ~IsMessage(doc.messages[j])

(***************************************************************************)
(* C2: a document of N records whose types are all valid loads, and then   *)
(* ChatExport.messages has exactly N elements, element i being the         *)
(* Message the factory builds from raw record i: same keys, id, type,      *)
(* date and date_unixtime, and the normalized text of that record.         *)
(***************************************************************************)
C2_LoadPreservesRecords ==
    /\ (pc # "start" /\ \A i \in 1..Len(parsed.messages) : ValidType(parsed.messages[i]))
         => (Loaded /\ chat # NoChat)
    /\ Loaded =>
         /\ Len(doc.messages) = Len(parsed.messages)
         /\ \A i \in 1..Len(parsed.messages) :
               LET m == doc.messages[i]
                   r == parsed.messages[i]
               IN  /\ IsMessage(m)
                   /\ m = GetMessage(r).val
                   /\ DOMAIN m.inner = DOMAIN r
                   /\ m.inner.id = r.id
                   /\ m.inner.type = r.type
                   /\ m.inner.date = r.date
                   /\ m.inner.date_unixtime = r.date_unixtime
                   /\ m.inner.text = [contents |-> Normalized(r.text)]

\* four records of both kinds, a list text among them, just loaded
C2_Witness ==
    /\ pc = "loaded"
    /\ cmd = NoCmd
    /\ Len(doc.messages) = 4
    /\ IsService(doc.messages[1])
    /\ IsRegular(doc.messages[2])
    /\ doc.messages[2].inner.id = 12
    /\ doc.messages[2].inner.text.contents = <<[str |-> <<"A">>], [type |-> <<"a">>]>>
    /\ doc.messages[4].inner.text.contents = <<[str |-> <<"a">>]>>

(***************************************************************************)
(* C3: the factory makes a Regular message, whose from_usr is the          *)
(* record's "from", of every record of type "message", and a Service       *)
(* message, whose action is the record's "action", of every record of      *)
(* type "service"; the record's other fields play no part, and the         *)
(* variant is the same in every later state (parsed is never written, so   *)
(* holding in every state says the variant never changes).                 *)
(***************************************************************************)
C3_VariantFollowsType ==
    \A i \in 1..Len(doc.messages) :
        LET m == doc.messages[i]
            r == parsed.messages[i]
        IN  /\ (Loaded /\ r.type = "message") => IsRegular(m)
            /\ (Loaded /\ r.type = "service") => IsService(m)
            /\ IsMessage(m) =>
                  /\ r.type = "message" =>
                        /\ m.cls = "RegularMessage"
                        /\ "from" \in DOMAIN r => FromUsr(m) = [err |-> NoErr, val |-> r.from]
                  /\ r.type = "service" =>
                        /\ m.cls = "ServiceMessage"
                        /\ "action" \in DOMAIN r => Action(m) = [err |-> NoErr, val |-> r.action]
                  /\ ValidType(r)

\* both variants in a chat that has answered a query
C3_Witness ==
    /\ pc = "loaded"
    /\ cmd # NoCmd
    /\ Len(doc.messages) >= 2
    /\ parsed.messages[1].type = "service"
    /\ Action(doc.messages[1]) = [err |-> NoErr, val |-> "invite_members"]
    /\ parsed.messages[2].type = "message"
    /\ FromUsr(doc.messages[2]) = [err |-> NoErr, val |-> "B"]

\* the Regular messages of the chat whose sender is u
From(u) ==
    {i \in 1..Len(doc.messages) :
        /\ IsRegular(doc.messages[i])
        /\ "from" \in DOMAIN doc.messages[i].inner
        /\ doc.messages[i].inner.from = u}

Senders == {u \in {"A", "B"} : From(u) # {}}

\* the last query printed each sender once with the number of its Regular
\* messages, in ascending order of that number
PerUserReport ==
    /\ err = NoErr
    /\ pc = "loaded"
    /\ Len(out) = Cardinality(Senders)
    /\ {out[k][2] : k \in 1..Len(out)} = Senders
    /\ \A k \in 1..Len(out) :
          /\ out[k][1] = "usr"
          /\ out[k][3] = Cardinality(From(out[k][2]))
    /\ \A k \in 1..Len(out), l \in 1..Len(out) :
          k < l => out[k][3] <= out[l][3]

AllRegularHaveFrom ==
    \A i \in 1..Len(doc.messages) :
        IsRegular(doc.messages[i]) => "from" \in DOMAIN doc.messages[i].inner

Rerun ==
    CASE cmd.name = "wcount" -> WordCountRun(doc.messages, cmd)
      [] cmd.name = "wgrep" -> WordGrepRun(doc.messages, cmd)
      [] cmd.name = "msgcount" -> MsgCountRun(doc.messages, cmd)

C8_QueriesReadOnly ==
    /\ [][pc = "loaded" => (doc' = doc /\ chat' = chat)]_vars
    /\ []((Loaded /\ cmd # NoCmd) => Rerun = [err |-> err, out |-> out])

\* a chat with a service message that has answered a per-user count
C8_Witness ==
    /\ pc = "loaded"
    /\ cmd = [name |-> "msgcount", per_user |-> TRUE]
    /\ Len(doc.messages) = 3
    /\ IsService(doc.messages[2])
    /\ out = <<<<"usr", "A", 2>>>>

(***************************************************************************)
(* C9: from_usr on a Service message raises AttributeError.  wcount        *)
(* --per-user and wgrep end with the error of the first message that holds *)
(* a searched word and has no sender to show (AttributeError for a Service *)
(* message, KeyError for a Regular one without "from"), and return         *)
(* normally when there is none.  msgcount --per-user skips Service         *)
(* messages and ends with KeyError on a Regular message without "from".    *)
(* The queries that ask for no sender skip nothing: wcount counts the      *)
(* words in Service messages too, msgcount counts every message.           *)
(***************************************************************************)
C9_VariantErrorsPropagate ==
    /\ \A i \in 1..Len(doc.messages) :
          IsService(doc.messages[i]) =>
              FromUsr(doc.messages[i]) = [err |-> AttributeError("from_usr")]
    /\ (Loaded /\ cmd # NoCmd /\
         (cmd.name = "wgrep" \/ (cmd.name = "wcount" /\ cmd.per_user))) =>
          IF Raising # {}
          THEN /\ pc = "crashed"
               /\ err = IF IsService(doc.messages[FirstRaising])
                         THEN AttributeError("from_usr")
                         ELSE KeyError("from")
               /\ cmd.name = "wcount" => out = <<>>
               /\ cmd.name = "wgrep" =>
                     \A k \in 1..Len(out) :
                         \E i \in 1..(FirstRaising - 1) :
                             /\ Hit(i)
                             /\ out[k][3] = doc.messages[i].inner.from
          ELSE pc = "loaded" /\ err = NoErr
    /\ (Loaded /\ cmd = [name |-> "msgcount", per_user |-> TRUE]) =>
          IF \E i \in 1..Len(doc.messages) :
                 IsRegular(doc.messages[i]) /\ "from" \notin DOMAIN doc.messages[i].inner
          THEN pc = "crashed" /\ err = KeyError("from") /\ out = <<>>
          ELSE pc = "loaded" /\ err = NoErr
    /\ (Loaded /\ cmd # NoCmd /\ cmd.name = "wcount" /\ ~cmd.per_user) =>
          /\ pc = "loaded" /\ err = NoErr
          /\ \A k \in 1..Len(out) :
                out[k][3] = Total([i \in 1..Len(doc.messages) |->
                                      OccurrencesIn(i, out[k][2])],
                                  Len(doc.messages))
    /\ (Loaded /\ cmd = [name |-> "msgcount", per_user |-> FALSE]) =>
          /\ pc = "loaded" /\ err = NoErr
          /\ out = <<<<"len", Len(doc.messages)>>>>

\* wgrep prints a match of A, then meets a service message that holds a word
C9_Witness ==
    /\ pc = "crashed"
    /\ cmd.name = "wgrep"
    /\ err = AttributeError("from_usr")
    /\ Len(out) = 1
    /\ IsRegular(doc.messages[1])
    /\ IsService(doc.messages[2])

====
